---- MODULE Spec2Model ----
\* Model of torcx's apply pipeline (internal/torcx/perform.go): ApplyProfile,
\* setupPaths, applyImages, unpackTgz, mountSquashfs and SealSystemState, run
\* against an abstract filesystem (directories, the mount stack of the unpack
\* directory, the run-profile file, the seal file, the propagation targets).
\* Every system call the code checks the error of can fail; the outcome of a
\* call is chosen when the call is made.
EXTENDS Integers, Sequences, FiniteSets, TLC

\* ---------------------------------------------------------------- bounds

\* Longest merged image list mergeProfiles hands to applyImages.
MaxImages == 3
\* Number of calls of setupPaths and SealSystemState in a boot.
MaxCalls == 3
\* os.Stat errors other than "not exist" that setupPaths and SealSystemState
\* meet in one call, in the boots that have them.
MaxStatErrors == 1
\* Longest merged image list in the boots in which os.Stat fails so.
MaxShortList == 1
\* Capacity of the bufio.Writer of ApplyProfile, counted in encoded JSON items
\* (one item for the manifest kind, one per image entry).
BufSize == 2
\* Most lines of a release-info file the version is parsed from.
MaxLines == 3
\* Most lines of a release-info file a URL template is evaluated against.
MaxFacts == 2
\* Longest merged image list in the boots in which images have any names.
MaxOddList == 2

\* ---------------------------------------------------------------- values

\* The nil *ApplyConfig.
NilCfg == [isNil |-> TRUE]

UpperProfiles == {"upper-a", "upper-b"}

\* The configurations callers pass: the same directory layout, one of two
\* upper profiles.
Cfg(u) ==
  [isNil |-> FALSE,
   BaseDir |-> <<"var", "lib", "torcx">>,
   RunDir |-> <<"run", "torcx">>,
   ConfDir |-> <<"etc", "torcx">>,
   LowerProfiles |-> <<"vendor", "user">>,
   UpperProfile |-> u]

Cfgs == { Cfg(u) : u \in UpperProfiles }

\* Directories of the booted system before torcx runs.
SystemDirs == { <<"run">>, <<"var">>, <<"var", "lib">>, <<"etc">> }

\* Names mergeProfiles can return, in merged order.
ImagePool == <<"docker", "rkt", "kubelet", "etcd", "flannel">>

\* Names a profile manifest can give an image: any non-empty string.
OddNames == {"docker", "rkt/../docker", "..", "../bin"}

\* error values: nil, or the message with the contexts errors.Wrap added,
\* outermost first; n is the number a formatted message carries.
Nil == [ctx |-> <<>>, msg |-> "", n |-> 0]

Err(m) == [ctx |-> <<>>, msg |-> m, n |-> 0]

Wrap(e, c) == [e EXCEPT !.ctx = <<c>> \o e.ctx]

ErrMissingCfg == Err("missing apply configuration")

\* fmt.Errorf("failed to install %d images", len(failedImages))
ErrFailedImages(failed) == [ctx |-> <<>>, msg |-> "failed to install %d images", n |-> Len(failed)]

\* ---------------------------------------------------------------- paths

RunBinDir(cfg) == cfg.RunDir \o <<"bin">>

RunUnpackDir(cfg) == cfg.RunDir \o <<"unpack">>

UserProfileDir(cfg) == cfg.ConfDir \o <<"profiles">>

RunProfile(cfg) == cfg.RunDir \o <<"profile.json">>

SealPath == <<"run", "metadata", "torcx">>

\* filepath.Dir
Dir(p) == SubSeq(p, 1, Len(p) - 1)

\* the paths setupPaths creates, in its order
SetupPathList(cfg) ==
  << cfg.RunDir, cfg.BaseDir, cfg.ConfDir, RunBinDir(cfg), RunUnpackDir(cfg), UserProfileDir(cfg) >>

\* os.MkdirAll(d): d and every missing ancestor
MkdirAll(ds, d) == ds \cup { SubSeq(d, 1, k) : k \in 1..Len(d) }

\* the components of an image name, split at "/"
Components(name) ==
  CASE name = ".." -> <<"..">>
    [] name = "../bin" -> <<"..", "bin">>
    [] name = "rkt/../docker" -> <<"rkt", "..", "docker">>
    [] OTHER -> <<name>>

\* filepath.Clean of the absolute path p: "." is dropped, ".." takes the
\* component before it with it (none at the root)
RECURSIVE Clean(_)
Clean(p) ==
  IF p = <<>> THEN <<>>
  ELSE LET front == Clean(SubSeq(p, 1, Len(p) - 1))
           last == p[Len(p)] IN
       IF last = "." THEN front
       ELSE IF last = ".." THEN (IF front = <<>> THEN <<>> ELSE SubSeq(front, 1, Len(front) - 1))
       ELSE Append(front, last)

\* perform.go:310 and 350, filepath.Join(applyCfg.RunUnpackDir(), imageName)
TopDir(cfg, imageName) == Clean((cfg.RunDir \o <<"unpack">>) \o Components(imageName))

\* path p is dir or below it
Inside(p, dir) == Len(dir) <= Len(p) /\ SubSeq(p, 1, Len(dir)) = dir

\* mutant of StatOutcomes: the path is never found, so that it is always made
StatOutcomes_NeverFound(present, mayFail) == {"notexist"}

\* os.Stat(d) as the code reads it: nil, an IsNotExist error, or another error
\* (ENOTDIR, ELOOP, EACCES, EIO, ...), which the callers treat like nil.
StatOutcomes(present, mayFail) ==
  IF present THEN {"ok"}
  ELSE IF mayFail THEN {"notexist", "error"} ELSE {"notexist"}

\* no call made yet
NotCalled == [called |-> FALSE]

\* ---------------------------------------------------------------- state

VARIABLES
  pc,            \* the statement the running call is at; "idle" between calls
  op,            \* the top-level call in progress
  callCount,     \* top-level calls made so far
  applyCfg,      \* the *ApplyConfig argument of the call
  ret,           \* the error the call returned
  pre,           \* the filesystem as it was when the call was made
  faulted,       \* a system call of this call failed for a reason outside the model
  statErrs,      \* os.Stat errors other than "not exist" met in this call
  dirs,          \* the directories that exist
  unpackMounts,  \* the mounts stacked on RunUnpackDir, bottom first
  imageRoots,    \* per top directory of an image (see TopDir): "absent",
                 \* "dir" (created, not or partly filled), "root" (extracted or mounted)
  loopHeld,      \* loop-device handles the process holds open
  propagated,    \* per asset category, the images propagated to its target, in order
  rpFile,        \* the run-profile file
  sealFile,      \* the seal record file
  pathIdx,       \* setupPaths: index of the next path
  spErr,         \* setupPaths: its return value
  images,        \* ApplyProfile: the merged image list
  imIdx,         \* applyImages: index of the image being processed
  failedImages,  \* applyImages: failedImages
  archive,       \* applyImages: the archive format ArchiveFor found
  imageRoot,     \* applyImages: imageRoot of the current image
  assets,        \* applyImages: non-empty asset categories of the current image
  catIdx,        \* applyImages: index of the next category to propagate
  aiErr,         \* applyImages: its return value
  progress,      \* per image index: was it attempted, the step that failed for it
                 \* ("none" when none did), the asset categories retrieveAssets found,
                 \* the steps run for it, in the order they were run, the image
                 \* root its extractor returned
  rpp,           \* ApplyProfile: the run-profile file is open
  bufwr,         \* ApplyProfile: the bufio.Writer (buffered items, sticky error)
  chmodDone,     \* ApplyProfile: os.Chmod(RunProfile, 0444) has succeeded
  fp,            \* SealSystemState: the seal file is open
  lineIdx,       \* SealSystemState: index of the next content line
  osRelease,     \* the release-info file: its lines, and whether reading it fails
                 \* after them
  verResult,     \* what the last parseOsVersionID / CurrentOsVersionID returned
  urlResult      \* what the last evaluateURL was called with and returned

ctlVars == <<op, callCount, applyCfg, pre>>

fsVars == <<dirs, unpackMounts, imageRoots, loopHeld, propagated, rpFile, sealFile>>

spVars == <<pathIdx, spErr>>

aiVars == <<images, imIdx, failedImages, archive, imageRoot, assets, catIdx, aiErr, progress>>

apVars == <<rpp, bufwr, chmodDone>>

ssVars == <<fp, lineIdx>>

relVars == <<osRelease, verResult, urlResult>>

vars == <<pc, ret, faulted, statErrs, ctlVars, fsVars, spVars, aiVars, apVars, ssVars, relVars>>

ImageNames == { ImagePool[i] : i \in 1..Len(ImagePool) }

\* the top directories of the images
TopDirs == { TopDir(Cfg("upper-a"), n) : n \in ImageNames \cup OddNames }

Categories == <<"Binaries", "Network", "Units", "Sysusers", "Tmpfiles", "UdevRules">>

CategorySet == { Categories[i] : i \in 1..Len(Categories) }

\* the filesystem, as one value
Snapshot ==
  [dirs |-> dirs, unpackMounts |-> unpackMounts, imageRoots |-> imageRoots,
   propagated |-> propagated, rpFile |-> rpFile, sealFile |-> sealFile]

NoFile == [exists |-> FALSE, content |-> <<>>, mode |-> "none"]

NoBuf == [buf |-> <<>>, err |-> FALSE]

\* the system before torcx has run, whatever its release-info file holds
Booted ==
  /\ pc = "idle"
  /\ op = "none"
  /\ callCount = 0
  /\ applyCfg = NilCfg
  /\ ret = Nil
  /\ faulted = FALSE
  /\ statErrs = 0
  /\ dirs = SystemDirs
  /\ unpackMounts = <<>>
  /\ imageRoots = [d \in TopDirs |-> "absent"]
  /\ loopHeld = 0
  /\ propagated = [c \in CategorySet |-> <<>>]
  /\ rpFile = NoFile
  /\ sealFile = NoFile
  /\ pre = [dirs |-> SystemDirs, unpackMounts |-> <<>>,
            imageRoots |-> [d \in TopDirs |-> "absent"],
            propagated |-> [c \in CategorySet |-> <<>>],
            rpFile |-> NoFile, sealFile |-> NoFile]
  /\ pathIdx = 0
  /\ spErr = Nil
  /\ images = <<>>
  /\ imIdx = 0
  /\ failedImages = <<>>
  /\ archive = "none"
  /\ imageRoot = <<>>
  /\ assets = {}
  /\ catIdx = 0
  /\ aiErr = Nil
  /\ progress = <<>>
  /\ rpp = FALSE
  /\ bufwr = NoBuf
  /\ chmodDone = FALSE
  /\ fp = FALSE
  /\ lineIdx = 0
  /\ verResult = NotCalled
  /\ urlResult = NotCalled

\* the apply pipeline does not read the release-info file
Init ==
  /\ Booted
  /\ osRelease = [lines |-> <<>>, err |-> FALSE]

\* ---------------------------------------------------------------- calls

\* A caller (the command-line front end, a test) calls one of the operations
\* ops with one of the configurations cfgs, at most budget times in a boot.
Call(budget, ops, cfgs) ==
  /\ pc = "idle"
  /\ callCount < budget
  /\ \E o \in ops :
       \E c \in cfgs :
         /\ op' = o
         /\ applyCfg' = c
         /\ pc' = CASE o = "ApplyProfile" -> "AP_start"
                    [] o = "setupPaths" -> "SP_start"
                    [] OTHER -> "SS_start"
  /\ callCount' = callCount + 1
  /\ pre' = Snapshot
  /\ ret' = Nil
  /\ faulted' = FALSE
  /\ statErrs' = 0
  /\ UNCHANGED <<relVars, fsVars, spVars, aiVars, apVars, ssVars>>

\* The call has returned; its locals are gone.
Return ==
  /\ pc = "done"
  /\ pc' = "idle"
  /\ op' = "none"
  /\ applyCfg' = NilCfg
  /\ pre' = Snapshot
  /\ ret' = Nil
  /\ faulted' = FALSE
  /\ statErrs' = 0
  /\ pathIdx' = 0
  /\ spErr' = Nil
  /\ images' = <<>>
  /\ imIdx' = 0
  /\ failedImages' = <<>>
  /\ archive' = "none"
  /\ imageRoot' = <<>>
  /\ assets' = {}
  /\ catIdx' = 0
  /\ aiErr' = Nil
  /\ progress' = <<>>
  /\ rpp' = FALSE
  /\ bufwr' = NoBuf
  /\ chmodDone' = FALSE
  /\ fp' = FALSE
  /\ lineIdx' = 0
  /\ UNCHANGED <<callCount, relVars, fsVars>>

\* ---------------------------------------------------------------- setupPaths

\* where setupPaths returns to with error e: its caller ApplyProfile, or the
\* caller of the call
SetupReturns(e) ==
  /\ spErr' = e
  /\ pathIdx' = 0
  /\ IF op = "ApplyProfile"
       THEN pc' = "AP_afterSetup" /\ ret' = ret
       ELSE pc' = "done" /\ ret' = e

\* perform.go:263-265
SP_start ==
  /\ pc = "SP_start"
  /\ IF applyCfg.isNil
       THEN SetupReturns(ErrMissingCfg)
       ELSE pc' = "SP_paths" /\ pathIdx' = 1 /\ UNCHANGED <<spErr, ret>>
  /\ UNCHANGED <<faulted, statErrs, ctlVars, relVars, fsVars, aiVars, apVars, ssVars>>

\* perform.go:277-283, one iteration of the loop over paths
SP_paths(statBudget) ==
  /\ pc = "SP_paths"
  /\ pathIdx <= Len(SetupPathList(applyCfg))
  /\ LET d == SetupPathList(applyCfg)[pathIdx] IN
     \E st \in StatOutcomes(d \in dirs, statErrs < statBudget) :
       IF st = "notexist"
         THEN \E ok \in BOOLEAN :
                IF ok
                  THEN /\ dirs' = MkdirAll(dirs, d)
                       /\ pathIdx' = pathIdx + 1
                       /\ pc' = IF pathIdx = Len(SetupPathList(applyCfg)) THEN "SP_mount" ELSE "SP_paths"
                       /\ UNCHANGED <<spErr, ret, faulted, statErrs>>
                  ELSE /\ SetupReturns(Err("mkdir"))
                       /\ faulted' = TRUE
                       /\ UNCHANGED statErrs
                       /\ UNCHANGED dirs
         ELSE /\ pathIdx' = pathIdx + 1
              /\ pc' = IF pathIdx = Len(SetupPathList(applyCfg)) THEN "SP_mount" ELSE "SP_paths"
              /\ faulted' = (faulted \/ st = "error")
              /\ statErrs' = IF st = "error" THEN statErrs + 1 ELSE statErrs
              /\ UNCHANGED <<dirs, spErr, ret>>
  /\ UNCHANGED <<ctlVars, relVars, unpackMounts, imageRoots, loopHeld, propagated, rpFile, sealFile,
                 aiVars, apVars, ssVars>>

\* a fresh tmpfs: read-write, mode 1777, empty; it hides what the directory
\* it is mounted on held
NewTmpfs == [fstype |-> "tmpfs", ro |-> FALSE, mode |-> "1777"]

\* perform.go:287-289, unix.Mount("none", RunUnpackDir, "tmpfs", 0, "size=450M")
SP_mount ==
  /\ pc = "SP_mount"
  /\ \E ok \in BOOLEAN :
       IF ok /\ RunUnpackDir(applyCfg) \in dirs
         THEN /\ unpackMounts' = Append(unpackMounts, NewTmpfs)
              /\ imageRoots' = [d \in TopDirs |->
                                   IF Inside(d, RunUnpackDir(applyCfg)) THEN "absent" ELSE imageRoots[d]]
              /\ pc' = "SP_chmod"
              /\ UNCHANGED <<spErr, pathIdx, ret, faulted, statErrs>>
         ELSE /\ SetupReturns(Wrap(Err("mount"), "failed to mount unpack dir"))
              /\ faulted' = (faulted \/ RunUnpackDir(applyCfg) \in dirs)
              /\ UNCHANGED statErrs
              /\ UNCHANGED <<unpackMounts, imageRoots>>
  /\ UNCHANGED <<ctlVars, relVars, dirs, loopHeld, propagated, rpFile, sealFile, aiVars, apVars, ssVars>>

\* perform.go:292-297, os.Chmod(RunUnpackDir, 0755) on the tmpfs just mounted
SP_chmod ==
  /\ pc = "SP_chmod"
  /\ \E ok \in BOOLEAN :
       IF ok
         THEN /\ unpackMounts' = [unpackMounts EXCEPT ![Len(unpackMounts)].mode = "0755"]
              /\ SetupReturns(Nil)
              /\ UNCHANGED <<faulted, statErrs>>
         ELSE /\ SetupReturns(Wrap(Err("chmod"), "failed to chmod unpack dir"))
              /\ faulted' = TRUE
              /\ UNCHANGED statErrs
              /\ UNCHANGED unpackMounts
  /\ UNCHANGED <<ctlVars, relVars, dirs, imageRoots, loopHeld, propagated, rpFile, sealFile,
                 aiVars, apVars, ssVars>>

setupPaths(statBudget) == SP_start \/ SP_paths(statBudget) \/ SP_mount \/ SP_chmod

\* ---------------------------------------------------------------- ApplyProfile, first half

\* mutant of AP_start: the nil test is missing
AP_start_NoNilCheck ==
  /\ pc = "AP_start"
  /\ pc' = "SP_start"
  /\ UNCHANGED <<ret, faulted, statErrs, ctlVars, relVars, fsVars, spVars, aiVars, apVars, ssVars>>

\* perform.go:49-53
AP_start ==
  /\ pc = "AP_start"
  /\ IF applyCfg.isNil
       THEN pc' = "done" /\ ret' = ErrMissingCfg
       ELSE pc' = "SP_start" /\ ret' = ret
  /\ UNCHANGED <<faulted, statErrs, ctlVars, relVars, fsVars, spVars, aiVars, apVars, ssVars>>

\* perform.go:54-56
AP_afterSetup ==
  /\ pc = "AP_afterSetup"
  /\ IF spErr # Nil
       THEN pc' = "done" /\ ret' = Wrap(spErr, "profile setup")
       ELSE pc' = "AP_merge" /\ ret' = ret
  /\ UNCHANGED <<faulted, statErrs, ctlVars, relVars, fsVars, spVars, aiVars, apVars, ssVars>>

\* an Image of the merged profile
Image(n) == [Name |-> n, Reference |-> "ref"]

\* what mergeProfiles can return: an error, or a list of images with distinct names
MergedLists(longest) == { [i \in 1..k |-> Image(ImagePool[i])] : k \in 0..longest }

\* merged lists of images with any names, distinct as mergeProfiles makes them
OddLists ==
  { l \in UNION { [1..k -> { Image(n) : n \in OddNames }] : k \in 1..MaxOddList } :
      \A i, j \in 1..Len(l) : i # j => l[i] # l[j] }

\* perform.go:58-66, mergeProfiles and the test on len(images)
AP_merge(lists) ==
  /\ pc = "AP_merge"
  /\ \/ /\ pc' = "done"
        /\ ret' = Err("merge profiles")
        /\ faulted' = TRUE
        /\ UNCHANGED statErrs
        /\ UNCHANGED images
     \/ \E l \in lists :
          /\ images' = l
          /\ pc' = IF Len(l) > 0 THEN "AI_start" ELSE "AP_create"
          /\ UNCHANGED <<ret, faulted, statErrs>>
  /\ UNCHANGED <<ctlVars, relVars, fsVars, spVars, imIdx, failedImages, archive, imageRoot, assets,
                 catIdx, aiErr, progress, apVars, ssVars>>

\* ---------------------------------------------------------------- applyImages

\* a write into the unpack directory of cfg succeeds: it is a directory, and
\* the filesystem on top of it is not read-only
UnpackWritable(cfg) ==
  /\ RunUnpackDir(cfg) \in dirs
  /\ unpackMounts # <<>> => ~unpackMounts[Len(unpackMounts)].ro

\* the sets of non-empty asset categories retrieveAssets reports for an image
AssetChoices ==
  { {}, {"Binaries"}, {"Network", "Units"}, CategorySet }

\* mutant of NextImage: the images are taken in no fixed order (a range over
\* a map instead of the list)
NextImage_AnyOrder ==
  /\ LET rest == { i \in 1..Len(images) : ~progress[i].visited /\ i # imIdx } IN
     IF rest = {}
       THEN imIdx' = Len(images) + 1 /\ pc' = "AI_end"
       ELSE \E i \in rest : imIdx' = i /\ pc' = "AI_archive"
  /\ archive' = "none"
  /\ imageRoot' = <<>>
  /\ assets' = {}
  /\ catIdx' = 0

\* applyImages goes on to the next image, or leaves the loop after the last
NextImage ==
  /\ imIdx' = imIdx + 1
  /\ pc' = IF imIdx = Len(images) THEN "AI_end" ELSE "AI_archive"
  /\ archive' = "none"
  /\ imageRoot' = <<>>
  /\ assets' = {}
  /\ catIdx' = 0

\* the step named step of the current image returned an error
StepFailed(step) == progress' = [progress EXCEPT ![imIdx].failedAt = step]

\* the step named step of the current image is run, and fails or not
Attempt(step, fails) ==
  progress' = [progress EXCEPT ![imIdx].visited = TRUE,
                               ![imIdx].steps = Append(@, step),
                               ![imIdx].failedAt = IF fails THEN step ELSE @]

\* mutant of AI_start: the error of NewStoreCache is dropped
AI_start_IgnoreCacheError ==
  /\ pc = "AI_start"
  /\ \E ok \in BOOLEAN :
       /\ failedImages' = <<>>
       /\ imIdx' = 1
       /\ progress' = [i \in 1..Len(images) |-> [visited |-> FALSE, failedAt |-> "none", assets |-> {}, steps |-> <<>>, root |-> <<>>]]
       /\ pc' = "AI_archive"
       /\ aiErr' = IF ok THEN aiErr ELSE Err("store cache")
       /\ faulted' = (faulted \/ ~ok)
       /\ UNCHANGED statErrs
  /\ UNCHANGED <<ret, ctlVars, relVars, fsVars, spVars, images, archive, imageRoot, assets, catIdx,
                 apVars, ssVars>>

\* perform.go:99-109, NewStoreCache and the empty failedImages
AI_start ==
  /\ pc = "AI_start"
  /\ \E ok \in BOOLEAN :
       IF ok
         THEN /\ failedImages' = <<>>
              /\ imIdx' = 1
              /\ progress' = [i \in 1..Len(images) |-> [visited |-> FALSE, failedAt |-> "none", assets |-> {}, steps |-> <<>>, root |-> <<>>]]
              /\ pc' = "AI_archive"
              /\ UNCHANGED <<aiErr, faulted, statErrs>>
         ELSE /\ aiErr' = Err("store cache")
              /\ pc' = "AP_afterApply"
              /\ faulted' = TRUE
              /\ UNCHANGED statErrs
              /\ UNCHANGED <<failedImages, imIdx, progress>>
  /\ UNCHANGED <<ret, ctlVars, relVars, fsVars, spVars, images, archive, imageRoot, assets, catIdx,
                 apVars, ssVars>>

\* the formats storeCache.ArchiveFor reports, "other" being any value that is
\* neither ArchiveFormatTgz nor ArchiveFormatSquashfs
ArchiveFormats == {"tgz", "squashfs", "other"}

\* perform.go:111-123, the head of the loop and storeCache.ArchiveFor(im)
AI_archive ==
  /\ pc = "AI_archive"
  /\ imIdx <= Len(images)
  /\ \/ /\ failedImages' = Append(failedImages, images[imIdx])
        /\ Attempt("resolve", TRUE)
        /\ NextImage
     \/ \E f \in ArchiveFormats :
          /\ archive' = f
          /\ Attempt("resolve", FALSE)
          /\ pc' = "AI_unpack"
          /\ UNCHANGED <<failedImages, imIdx, imageRoot, assets, catIdx>>
  /\ UNCHANGED <<ret, faulted, statErrs, ctlVars, relVars, fsVars, spVars, images, aiErr, apVars, ssVars>>

\* mutant of UnpackFailed: the loop is left (break) instead of continued
UnpackFailed_Break ==
  /\ failedImages' = Append(failedImages, images[imIdx])
  /\ StepFailed("unpack")
  /\ pc' = "AI_end"
  /\ UNCHANGED <<imIdx, archive, imageRoot, assets, catIdx>>

\* the extractor of the current image returned an error (perform.go:134-138)
UnpackFailed ==
  /\ failedImages' = Append(failedImages, images[imIdx])
  /\ StepFailed("unpack")
  /\ NextImage

\* perform.go:125-138, the switch on archive.Format: the two extractors are
\* entered, any other format is an error
AI_unpack ==
  /\ pc = "AI_unpack"
  /\ IF archive = "tgz"
       THEN /\ pc' = "UT_mkdir"
            /\ Attempt("unpack", FALSE)
            /\ UNCHANGED <<failedImages, imIdx, archive, imageRoot, assets, catIdx>>
       ELSE IF archive = "squashfs"
         THEN /\ pc' = "MS_mkdir"
              /\ Attempt("unpack", FALSE)
              /\ UNCHANGED <<failedImages, imIdx, archive, imageRoot, assets, catIdx>>
         ELSE /\ failedImages' = Append(failedImages, images[imIdx])
              /\ Attempt("unpack", TRUE)
              /\ NextImage
  /\ UNCHANGED <<ret, faulted, statErrs, ctlVars, relVars, fsVars, spVars, images, aiErr, apVars, ssVars>>

\* the directory at path t is there
Exists(t) == t \in dirs \/ imageRoots[t] # "absent"

\* a write at path t succeeds as far as mounts go: below the unpack
\* directory when that is writable, elsewhere always
Writable(cfg, t) == Inside(t, RunUnpackDir(cfg)) => UnpackWritable(cfg)

\* perform.go:310-315 and 350-355: the top directory of the image is created
\* unless os.Stat finds it or fails otherwise
TopDirStep(next) ==
  LET t == TopDir(applyCfg, images[imIdx].Name) IN
  \E st \in StatOutcomes(Exists(t), TRUE) :
    IF st = "notexist"
      THEN \E ok \in BOOLEAN :
             IF ok /\ Writable(applyCfg, t)
               THEN /\ imageRoots' = [imageRoots EXCEPT ![t] = "dir"]
                    /\ pc' = next
                    /\ UNCHANGED <<failedImages, progress, imIdx, archive, imageRoot, assets, catIdx>>
               ELSE /\ UnpackFailed
                    /\ UNCHANGED imageRoots
      ELSE /\ pc' = next
           /\ UNCHANGED <<imageRoots, failedImages, progress, imIdx, archive, imageRoot, assets, catIdx>>

\* unpackTgz, perform.go:301-315
UT_mkdir ==
  /\ pc = "UT_mkdir"
  /\ TopDirStep("UT_extract")
  /\ UNCHANGED <<ret, faulted, statErrs, ctlVars, relVars, dirs, unpackMounts, loopHeld, propagated, rpFile,
                 sealFile, spVars, images, aiErr, apVars, ssVars>>

\* mutant of UT_extract: a failed extraction removes the top directory
UT_extract_RemovesTopDir ==
  /\ pc = "UT_extract"
  /\ LET t == TopDir(applyCfg, images[imIdx].Name) IN
     \E ok \in BOOLEAN :
       IF ok /\ Exists(t) /\ Writable(applyCfg, t)
         THEN /\ imageRoots' = [imageRoots EXCEPT ![t] = "root"]
              /\ imageRoot' = t
              /\ progress' = [progress EXCEPT ![imIdx].root = t]
              /\ pc' = "AI_assets"
              /\ UNCHANGED <<failedImages, imIdx, archive, assets, catIdx>>
         ELSE /\ UnpackFailed
              /\ imageRoots' = [imageRoots EXCEPT ![t] = "absent"]
  /\ UNCHANGED <<ret, faulted, statErrs, ctlVars, relVars, dirs, unpackMounts, loopHeld, propagated, rpFile,
                 sealFile, spVars, images, aiErr, apVars, ssVars>>

\* unpackTgz, perform.go:317-337: open, gunzip and untar into topDir; the
\* untar needs the directory to be there and writable
UT_extract ==
  /\ pc = "UT_extract"
  /\ LET t == TopDir(applyCfg, images[imIdx].Name) IN
     \E ok \in BOOLEAN :
       IF ok /\ Exists(t) /\ Writable(applyCfg, t)
         THEN /\ imageRoots' = [imageRoots EXCEPT ![t] = "root"]
              /\ imageRoot' = t
              /\ progress' = [progress EXCEPT ![imIdx].root = t]
              /\ pc' = "AI_assets"
              /\ UNCHANGED <<failedImages, imIdx, archive, assets, catIdx>>
         ELSE /\ UnpackFailed
              /\ UNCHANGED imageRoots
  /\ UNCHANGED <<ret, faulted, statErrs, ctlVars, relVars, dirs, unpackMounts, loopHeld, propagated, rpFile,
                 sealFile, spVars, images, aiErr, apVars, ssVars>>

\* mountSquashfs, perform.go:341-355
MS_mkdir ==
  /\ pc = "MS_mkdir"
  /\ TopDirStep("MS_attach")
  /\ UNCHANGED <<ret, faulted, statErrs, ctlVars, relVars, dirs, unpackMounts, loopHeld, propagated, rpFile,
                 sealFile, spVars, images, aiErr, apVars, ssVars>>

\* mountSquashfs, perform.go:357-361, loopback.AttachLoopDevice
MS_attach ==
  /\ pc = "MS_attach"
  /\ \E ok \in BOOLEAN :
       IF ok
         THEN /\ loopHeld' = loopHeld + 1
              /\ pc' = "MS_mount"
              /\ UNCHANGED <<failedImages, progress, imIdx, archive, imageRoot, assets, catIdx>>
         ELSE /\ UnpackFailed
              /\ UNCHANGED loopHeld
  /\ UNCHANGED <<ret, faulted, statErrs, ctlVars, relVars, dirs, unpackMounts, imageRoots, propagated, rpFile,
                 sealFile, spVars, images, aiErr, apVars, ssVars>>

\* mutant of MS_mount: loopDev.Close() is not deferred, a failed mount
\* returns without it
MS_mount_NoDefer ==
  /\ pc = "MS_mount"
  /\ LET t == TopDir(applyCfg, images[imIdx].Name) IN
     \E ok \in BOOLEAN :
       IF ok /\ Exists(t)
         THEN /\ imageRoots' = [imageRoots EXCEPT ![t] = "root"]
              /\ imageRoot' = t
              /\ pc' = "MS_close"
              /\ UNCHANGED <<imIdx, failedImages, archive, assets, catIdx, progress>>
         ELSE /\ UnpackFailed
              /\ UNCHANGED imageRoots
  /\ UNCHANGED <<ret, faulted, statErrs, ctlVars, relVars, dirs, unpackMounts, loopHeld, propagated, rpFile,
                 sealFile, spVars, images, aiErr, apVars, ssVars>>

\* mountSquashfs, perform.go:363-367, unix.Mount(loopDev, topDir, "squashfs",
\* MS_RDONLY): needs the mount point; the deferred Close runs next either way
MS_mount ==
  /\ pc = "MS_mount"
  /\ LET t == TopDir(applyCfg, images[imIdx].Name) IN
     \E ok \in BOOLEAN :
       IF ok /\ Exists(t)
         THEN /\ imageRoots' = [imageRoots EXCEPT ![t] = "root"]
              /\ imageRoot' = t
         ELSE /\ imageRoot' = <<>>
              /\ UNCHANGED imageRoots
  /\ pc' = "MS_close"
  /\ UNCHANGED <<ret, faulted, statErrs, ctlVars, relVars, dirs, unpackMounts, loopHeld, propagated, rpFile,
                 sealFile, spVars, images, imIdx, failedImages, archive, assets, catIdx,
                 aiErr, progress, apVars, ssVars>>

\* mountSquashfs, perform.go:361, the deferred loopDev.Close(), and the return
\* into applyImages (perform.go:134-140)
MS_close ==
  /\ pc = "MS_close"
  /\ loopHeld' = loopHeld - 1
  /\ IF imageRoot = <<>>
       THEN UnpackFailed
       ELSE /\ pc' = "AI_assets"
            /\ progress' = [progress EXCEPT ![imIdx].root = imageRoot]
            /\ UNCHANGED <<failedImages, imIdx, archive, imageRoot, assets, catIdx>>
  /\ UNCHANGED <<ret, faulted, statErrs, ctlVars, relVars, dirs, unpackMounts, imageRoots, propagated, rpFile,
                 sealFile, spVars, images, aiErr, apVars, ssVars>>

\* mutant of AI_assets: after a failed retrieveAssets the image is not left
AI_assets_GoesOn ==
  /\ pc = "AI_assets"
  /\ \/ /\ failedImages' = Append(failedImages, images[imIdx])
        /\ Attempt("assets", TRUE)
        /\ assets' = {"Binaries"}
        /\ catIdx' = 1
        /\ pc' = "AI_propagate"
        /\ UNCHANGED <<imIdx, archive, imageRoot>>
     \/ \E a \in AssetChoices :
          /\ assets' = a
          /\ progress' = [progress EXCEPT ![imIdx].assets = a, ![imIdx].steps = Append(@, "assets")]
          /\ catIdx' = 1
          /\ pc' = "AI_propagate"
          /\ UNCHANGED <<failedImages, imIdx, archive, imageRoot>>
  /\ UNCHANGED <<ret, faulted, statErrs, ctlVars, relVars, fsVars, spVars, images, aiErr, apVars, ssVars>>

\* perform.go:142-147, retrieveAssets
AI_assets ==
  /\ pc = "AI_assets"
  /\ \/ /\ failedImages' = Append(failedImages, images[imIdx])
        /\ Attempt("assets", TRUE)
        /\ NextImage
     \/ \E a \in AssetChoices :
          /\ assets' = a
          /\ progress' = [progress EXCEPT ![imIdx].assets = a, ![imIdx].steps = Append(@, "assets")]
          /\ catIdx' = 1
          /\ pc' = "AI_propagate"
          /\ UNCHANGED <<failedImages, imIdx, archive, imageRoot>>
  /\ UNCHANGED <<ret, faulted, statErrs, ctlVars, relVars, fsVars, spVars, images, aiErr, apVars, ssVars>>

\* perform.go:149-202, one of the six blocks: the category is propagated
\* when the image has assets of it, and a failure ends the image
AI_propagate ==
  /\ pc = "AI_propagate"
  /\ catIdx <= Len(Categories)
  /\ LET c == Categories[catIdx] IN
     IF c \in assets
       THEN \E ok \in BOOLEAN :
              IF ok
                THEN /\ propagated' = [propagated EXCEPT ![c] = Append(@, images[imIdx].Name)]
                     /\ Attempt(c, FALSE)
                     /\ IF catIdx = Len(Categories)
                          THEN NextImage
                          ELSE /\ catIdx' = catIdx + 1
                               /\ UNCHANGED <<pc, imIdx, archive, imageRoot, assets>>
                     /\ UNCHANGED failedImages
                ELSE /\ failedImages' = Append(failedImages, images[imIdx])
                     /\ Attempt(c, TRUE)
                     /\ NextImage
                     /\ UNCHANGED propagated
       ELSE /\ IF catIdx = Len(Categories)
                 THEN NextImage
                 ELSE /\ catIdx' = catIdx + 1
                      /\ UNCHANGED <<pc, imIdx, archive, imageRoot, assets>>
            /\ UNCHANGED <<propagated, failedImages, progress>>
  /\ UNCHANGED <<ret, faulted, statErrs, ctlVars, relVars, dirs, unpackMounts, imageRoots, loopHeld, rpFile,
                 sealFile, spVars, images, aiErr, apVars, ssVars>>

\* the image whose asset a destination of category c holds when every image
\* that propagated c wrote that destination: the one that wrote last
Holder(c) == propagated[c][Len(propagated[c])]

\* mutant of AI_end: nil is returned whatever failed
AI_end_NilError ==
  /\ pc = "AI_end"
  /\ aiErr' = Nil
  /\ pc' = "AP_afterApply"
  /\ UNCHANGED <<ret, faulted, statErrs, ctlVars, relVars, fsVars, spVars, images, imIdx, failedImages, archive,
                 imageRoot, assets, catIdx, progress, apVars, ssVars>>

\* perform.go:205-209
AI_end ==
  /\ pc = "AI_end"
  /\ aiErr' = IF Len(failedImages) > 0 THEN ErrFailedImages(failedImages) ELSE Nil
  /\ pc' = "AP_afterApply"
  /\ UNCHANGED <<ret, faulted, statErrs, ctlVars, relVars, fsVars, spVars, images, imIdx, failedImages, archive,
                 imageRoot, assets, catIdx, progress, apVars, ssVars>>

applyImages ==
  \/ AI_start \/ AI_archive \/ AI_unpack \/ UT_mkdir \/ UT_extract \/ MS_mkdir
  \/ MS_attach \/ MS_mount \/ MS_close \/ AI_assets \/ AI_propagate \/ AI_end

\* ---------------------------------------------------------------- ApplyProfile, second half

\* mutant of AP_afterApply: the error of applyImages is logged and dropped
AP_afterApply_Ignore ==
  /\ pc = "AP_afterApply"
  /\ pc' = "AP_create"
  /\ UNCHANGED <<ret, faulted, statErrs, ctlVars, relVars, fsVars, spVars, aiVars, apVars, ssVars>>

\* perform.go:63-65
AP_afterApply ==
  /\ pc = "AP_afterApply"
  /\ IF aiErr # Nil
       THEN pc' = "done" /\ ret' = aiErr
       ELSE pc' = "AP_create" /\ ret' = ret
  /\ UNCHANGED <<faulted, statErrs, ctlVars, relVars, fsVars, spVars, aiVars, apVars, ssVars>>

\* mutant of Created: the file is opened without O_TRUNC
Created_NoTrunc(f) ==
  [exists |-> TRUE, content |-> f.content, mode |-> IF f.exists THEN f.mode ELSE "0644"]

\* os.Create on a file: a new file is empty with mode 0644, an existing one is
\* truncated and keeps its mode
Created(f) == [exists |-> TRUE, content |-> <<>>, mode |-> IF f.exists THEN f.mode ELSE "0644"]

\* perform.go:72-78, os.Create(RunProfile), the two defers and the bufio.Writer
AP_create ==
  /\ pc = "AP_create"
  /\ \E ok \in BOOLEAN :
       IF ok /\ Dir(RunProfile(applyCfg)) \in dirs
         THEN /\ rpFile' = Created(rpFile)
              /\ rpp' = TRUE
              /\ bufwr' = NoBuf
              /\ pc' = "AP_encode"
              /\ UNCHANGED <<ret, faulted, statErrs>>
         ELSE /\ pc' = "done"
              /\ ret' = Err("create")
              /\ faulted' = TRUE
              /\ UNCHANGED statErrs
              /\ UNCHANGED <<rpFile, rpp, bufwr>>
  /\ UNCHANGED <<ctlVars, relVars, dirs, unpackMounts, imageRoots, loopHeld, propagated, sealFile,
                 spVars, aiVars, chmodDone, ssVars>>

\* ImagesToJSONV0 and the JSON encoding of the ProfileManifestV0JSON
\* (perform.go:68-71, 79-81): the kind, then one entry per image
EncodeRunProfile(ims) ==
  <<[k |-> "kind", v |-> "profile-manifest-v0"]>>
    \o [i \in 1..Len(ims) |-> [k |-> "image", v |-> ims[i].Name]]

\* what a failed write of data leaves in the file: any proper prefix of data
Prefixes(data) == { SubSeq(data, 1, k) : k \in 0..(Len(data) - 1) }

\* perform.go:79-83, enc.Encode(runProfile): one Write of the whole encoding to
\* bufwr, which passes a write larger than its empty buffer straight to the
\* file and keeps a smaller one in the buffer
AP_encode ==
  /\ pc = "AP_encode"
  /\ LET data == EncodeRunProfile(images) IN
     IF Len(data) > BufSize
       THEN \/ /\ rpFile' = [rpFile EXCEPT !.content = @ \o data]
               /\ pc' = "AP_chmod"
               /\ UNCHANGED <<bufwr, ret, faulted, statErrs>>
            \/ \E part \in Prefixes(data) :
                 /\ rpFile' = [rpFile EXCEPT !.content = @ \o part]
                 /\ bufwr' = [bufwr EXCEPT !.err = TRUE]
                 /\ ret' = Wrap(Err("write"), "writing RunProfile")
                 /\ faulted' = TRUE
                 /\ UNCHANGED statErrs
                 /\ pc' = "AP_flush"
       ELSE /\ bufwr' = [bufwr EXCEPT !.buf = @ \o data]
            /\ pc' = "AP_chmod"
            /\ UNCHANGED <<rpFile, ret, faulted, statErrs>>
  /\ UNCHANGED <<ctlVars, relVars, dirs, unpackMounts, imageRoots, loopHeld, propagated, sealFile,
                 spVars, aiVars, rpp, chmodDone, ssVars>>

\* perform.go:85-94, os.Chmod(RunProfile, 0444) and the return
AP_chmod ==
  /\ pc = "AP_chmod"
  /\ \E ok \in BOOLEAN :
       IF ok
         THEN /\ rpFile' = [rpFile EXCEPT !.mode = "0444"]
              /\ chmodDone' = TRUE
              /\ ret' = Nil
              /\ UNCHANGED <<faulted, statErrs>>
         ELSE /\ ret' = Err("chmod")
              /\ faulted' = TRUE
              /\ UNCHANGED statErrs
              /\ UNCHANGED <<rpFile, chmodDone>>
  /\ pc' = "AP_flush"
  /\ UNCHANGED <<ctlVars, relVars, dirs, unpackMounts, imageRoots, loopHeld, propagated, sealFile,
                 spVars, aiVars, rpp, bufwr, ssVars>>

\* perform.go:78, the deferred bufwr.Flush(), run on the way out: it writes
\* the buffered items through the open file unless the writer has failed
\* before; its result is dropped
AP_flush ==
  /\ pc = "AP_flush"
  /\ IF bufwr.err \/ bufwr.buf = <<>>
       THEN UNCHANGED <<rpFile, bufwr, faulted, statErrs>>
       ELSE \/ /\ rpFile' = [rpFile EXCEPT !.content = @ \o bufwr.buf]
               /\ bufwr' = [bufwr EXCEPT !.buf = <<>>]
               /\ UNCHANGED <<faulted, statErrs>>
            \/ \E part \in Prefixes(bufwr.buf) :
                 /\ rpFile' = [rpFile EXCEPT !.content = @ \o part]
                 /\ bufwr' = [buf |-> SubSeq(bufwr.buf, Len(part) + 1, Len(bufwr.buf)), err |-> TRUE]
                 /\ faulted' = TRUE
                 /\ UNCHANGED statErrs
  /\ pc' = "AP_close"
  /\ UNCHANGED <<ret, ctlVars, relVars, dirs, unpackMounts, imageRoots, loopHeld, propagated, sealFile,
                 spVars, aiVars, rpp, chmodDone, ssVars>>

\* perform.go:76, the deferred rpp.Close()
AP_close ==
  /\ pc = "AP_close"
  /\ rpp' = FALSE
  /\ pc' = "done"
  /\ UNCHANGED <<ret, faulted, statErrs, ctlVars, relVars, fsVars, spVars, aiVars, bufwr, chmodDone, ssVars>>

ApplyProfile(lists) ==
  \/ AP_start \/ AP_afterSetup \/ AP_merge(lists) \/ AP_afterApply \/ AP_create
  \/ AP_encode \/ AP_chmod \/ AP_flush \/ AP_close

\* ---------------------------------------------------------------- SealSystemState

\* strings.Join(elems, sep)
RECURSIVE Join(_, _)
Join(elems, sep) ==
  IF Len(elems) = 0 THEN <<>>
  ELSE IF Len(elems) = 1 THEN <<elems[1]>>
  ELSE <<elems[1], sep>> \o Join(Tail(elems), sep)

\* fmt.Sprintf("%s=%q", key, value): the key and the value in double quotes
SealLine(key, value) == [key |-> key, value |-> <<"\"">> \o value \o <<"\"">>]

\* perform.go:232-238
SealContent(cfg) ==
  << SealLine("LOWER_PROFILES", Join(cfg.LowerProfiles, ":")),
     SealLine("UPPER_PROFILE", <<cfg.UpperProfile>>),
     SealLine("RUN_PROFILE_PATH", RunProfile(cfg)),
     SealLine("BINDIR", RunBinDir(cfg)),
     SealLine("UNPACKDIR", RunUnpackDir(cfg)) >>

\* perform.go:215-217
SS_start ==
  /\ pc = "SS_start"
  /\ IF applyCfg.isNil
       THEN pc' = "done" /\ ret' = ErrMissingCfg
       ELSE pc' = "SS_mkdir" /\ ret' = ret
  /\ UNCHANGED <<faulted, statErrs, ctlVars, relVars, fsVars, spVars, aiVars, apVars, ssVars>>

\* perform.go:219-224
SS_mkdir(statBudget) ==
  /\ pc = "SS_mkdir"
  /\ \E st \in StatOutcomes(Dir(SealPath) \in dirs, statErrs < statBudget) :
       IF st = "notexist"
         THEN \E ok \in BOOLEAN :
                IF ok
                  THEN /\ dirs' = MkdirAll(dirs, Dir(SealPath))
                       /\ pc' = "SS_create"
                       /\ UNCHANGED <<ret, faulted, statErrs>>
                  ELSE /\ pc' = "done"
                       /\ ret' = Err("mkdir")
                       /\ faulted' = TRUE
                       /\ UNCHANGED statErrs
                       /\ UNCHANGED dirs
         ELSE /\ pc' = "SS_create"
              /\ faulted' = (faulted \/ st = "error")
              /\ statErrs' = IF st = "error" THEN statErrs + 1 ELSE statErrs
              /\ UNCHANGED <<dirs, ret>>
  /\ UNCHANGED <<ctlVars, relVars, unpackMounts, imageRoots, loopHeld, propagated, rpFile, sealFile,
                 spVars, aiVars, apVars, ssVars>>

\* perform.go:226-230, os.Create(SealPath) and the deferred Close
SS_create ==
  /\ pc = "SS_create"
  /\ \E ok \in BOOLEAN :
       IF ok /\ Dir(SealPath) \in dirs
         THEN /\ sealFile' = Created(sealFile)
              /\ fp' = TRUE
              /\ lineIdx' = 1
              /\ pc' = "SS_write"
              /\ UNCHANGED <<ret, faulted, statErrs>>
         ELSE /\ pc' = "done"
              /\ ret' = Err("create")
              /\ faulted' = (faulted \/ Dir(SealPath) \in dirs)
              /\ UNCHANGED statErrs
              /\ UNCHANGED <<sealFile, fp, lineIdx>>
  /\ UNCHANGED <<ctlVars, relVars, dirs, unpackMounts, imageRoots, loopHeld, propagated, rpFile,
                 spVars, aiVars, apVars>>

\* perform.go:240-245, one iteration: fp.WriteString(line + "\n")
SS_write ==
  /\ pc = "SS_write"
  /\ lineIdx <= Len(SealContent(applyCfg))
  /\ \E ok \in BOOLEAN :
       IF ok
         THEN /\ sealFile' = [sealFile EXCEPT !.content = Append(@, SealContent(applyCfg)[lineIdx])]
              /\ lineIdx' = lineIdx + 1
              /\ pc' = IF lineIdx = Len(SealContent(applyCfg)) THEN "SS_remount" ELSE "SS_write"
              /\ UNCHANGED <<ret, faulted, statErrs>>
         ELSE /\ ret' = Wrap(Err("write"), "writing seal content")
              /\ faulted' = TRUE
              /\ UNCHANGED statErrs
              /\ pc' = "SS_close"
              /\ UNCHANGED <<sealFile, lineIdx>>
  /\ UNCHANGED <<ctlVars, relVars, dirs, unpackMounts, imageRoots, loopHeld, propagated, rpFile,
                 spVars, aiVars, apVars, fp>>

\* mount(2) with MS_REMOUNT|MS_RDONLY: the topmost mount becomes read-only
RemountRO(mounts) == [mounts EXCEPT ![Len(mounts)].ro = TRUE]

\* perform.go:247-259, the remount of RunUnpackDir, which has to be a mount
\* point, and the return
SS_remount ==
  /\ pc = "SS_remount"
  /\ \E ok \in BOOLEAN :
       IF ok /\ unpackMounts # <<>>
         THEN /\ unpackMounts' = RemountRO(unpackMounts)
              /\ ret' = Nil
              /\ UNCHANGED <<faulted, statErrs>>
         ELSE /\ ret' = Wrap(Err("mount"), "failed to remount read-only")
              /\ faulted' = (faulted \/ unpackMounts # <<>>)
              /\ UNCHANGED statErrs
              /\ UNCHANGED unpackMounts
  /\ pc' = "SS_close"
  /\ UNCHANGED <<ctlVars, relVars, dirs, imageRoots, loopHeld, propagated, rpFile, sealFile,
                 spVars, aiVars, apVars, ssVars>>

\* perform.go:230, the deferred fp.Close()
SS_close ==
  /\ pc = "SS_close"
  /\ fp' = FALSE
  /\ pc' = "done"
  /\ UNCHANGED <<ret, faulted, statErrs, ctlVars, relVars, fsVars, spVars, aiVars, apVars, lineIdx>>

SealSystemState(statBudget) == SS_start \/ SS_mkdir(statBudget) \/ SS_create \/ SS_write \/ SS_remount \/ SS_close

\* ---------------------------------------------------------------- os-release

\* Strings are sequences of tokens: a key name, "=", a double quote, or a
\* piece of a value; "" is <<>>. The lines a release-info file is made of:
ReleaseLines ==
  { <<>>,
    <<"torcx">>,
    <<"VERSION_ID">>,
    <<"VERSION_ID", "=">>,
    <<"VERSION_ID", "=", "1680.2.0">>,
    <<"VERSION_ID", "=", "2705.0.0">>,
    <<"VERSION_ID", "=", "\"", "1680.2.0", "\"">>,
    <<"VERSION_ID", "=", "1680.2.0", "=", "2705.0.0">>,
    <<"ID", "=", "flatcar">>,
    <<"COREOS_BOARD", "=", "\"", "amd64-usr", "\"">>,
    <<"FLATCAR_BOARD", "=", "amd64-usr">>,
    <<"FLATCAR_BOARD", "=", "arm64-usr">> }

\* The streams a reader delivers: up to longest lines, then the end of the
\* stream or a read error (an I/O error, a line longer than the scanner's
\* buffer).
ReleaseStreams(longest) ==
  { [lines |-> l, err |-> e] :
      l \in UNION { [1..k -> ReleaseLines] : k \in 0..longest }, e \in BOOLEAN }

ErrUnknownOSVersionID == Err("unable to parse \"VERSION_ID\" from os-release")

\* index of the first "=" of line, 0 when it has none
FirstEq(line) ==
  IF \E i \in 1..Len(line) : line[i] = "="
    THEN CHOOSE i \in 1..Len(line) : line[i] = "=" /\ \A j \in 1..(i - 1) : line[j] # "="
    ELSE 0

\* strings.SplitN(line, "=", 2)
SplitN2(line) ==
  IF FirstEq(line) = 0 THEN <<line>>
  ELSE << SubSeq(line, 1, FirstEq(line) - 1), SubSeq(line, FirstEq(line) + 1, Len(line)) >>

\* mutant of ScanLoop: no break, the last VERSION_ID line wins
RECURSIVE ScanLoop_NoBreak(_, _)
ScanLoop_NoBreak(lines, i) ==
  IF i > Len(lines) THEN [ver |-> <<>>, brk |-> FALSE]
  ELSE LET parts == SplitN2(lines[i])
           rest == ScanLoop_NoBreak(lines, i + 1) IN
       IF lines[i] # <<>> /\ Len(parts) = 2 /\ parts[1] = <<"VERSION_ID">> /\ ~rest.brk
         THEN [ver |-> parts[2], brk |-> TRUE]
         ELSE rest

\* perform.go:388-404, the loop over the lines the scanner delivers, from
\* line i on: ver, and whether the loop was left by the break
RECURSIVE ScanLoop(_, _)
ScanLoop(lines, i) ==
  IF i > Len(lines) THEN [ver |-> <<>>, brk |-> FALSE]
  ELSE LET parts == SplitN2(lines[i]) IN
       IF lines[i] = <<>> THEN ScanLoop(lines, i + 1)
       ELSE IF Len(parts) # 2 THEN ScanLoop(lines, i + 1)
       ELSE IF parts[1] = <<"VERSION_ID">> THEN [ver |-> parts[2], brk |-> TRUE]
       ELSE ScanLoop(lines, i + 1)

\* perform.go:387-412; sc.Err() is set only when Scan met the read error,
\* that is when the loop ran to the end of what the stream delivers
parseOsVersionID(rd) ==
  LET r == ScanLoop(rd.lines, 1) IN
  IF ~r.brk /\ rd.err
    THEN [called |-> TRUE, ver |-> <<>>, err |-> Wrap(Err("scan"), "failed to parse os-release file")]
    ELSE IF r.ver = <<>>
      THEN [called |-> TRUE, ver |-> <<>>, err |-> ErrUnknownOSVersionID]
      ELSE [called |-> TRUE, ver |-> r.ver, err |-> Nil]

\* <usrMountpoint>/lib/os-release
VendorOsReleasePath(usrMountpoint) == usrMountpoint \o <<"lib", "os-release">>

\* the mountpoints callers pass: none, /usr, a test's temporary directory,
\* and a directory that holds no release-info file
Mountpoints == { <<>>, <<"usr">>, <<"tmp", "torcx_remote_test_">>, <<"mnt">> }

\* the paths at which the release-info file is found
ReleaseFilePaths == { VendorOsReleasePath(<<"usr">>), VendorOsReleasePath(<<"tmp", "torcx_remote_test_">>) }

\* perform.go:374-384
CurrentOsVersionID(path) ==
  LET p == IF path = <<>> THEN VendorOsReleasePath(<<"usr">>) ELSE path IN
  IF p \notin ReleaseFilePaths
    THEN [called |-> TRUE, ver |-> <<>>, err |-> Wrap(Err("open"), "failed to open")]
    ELSE parseOsVersionID(osRelease)

\* a caller parses the stream
CallParseOsVersionID ==
  /\ ~verResult.called /\ ~urlResult.called
  /\ verResult' = parseOsVersionID(osRelease)
  /\ UNCHANGED <<pc, ret, faulted, statErrs, ctlVars, fsVars, spVars, aiVars, apVars, ssVars,
                 osRelease, urlResult>>

\* a caller asks for the version of the system, by path
CallCurrentOsVersionID ==
  /\ ~verResult.called /\ ~urlResult.called
  /\ \E m \in Mountpoints :
       \E path \in { <<>>, VendorOsReleasePath(m) } :
         verResult' = CurrentOsVersionID(path)
  /\ UNCHANGED <<pc, ret, faulted, statErrs, ctlVars, fsVars, spVars, aiVars, apVars, ssVars,
                 osRelease, urlResult>>

\* ---------------------------------------------------------------- evaluateURL

\* the sentinel errors of Remote.evaluateURL
errNilRemote == Err("nil remote")

errEmptyUsrMountpoint == Err("empty usr mountpoint")

errEmptyTemplateURL == Err("empty template URL")

\* the nil *Remote
NilRemote == [isNil |-> TRUE]

BaseURL == "https://example.com/baseurl/"

\* URL templates, as the sequence of their literal pieces and ${NAME} tokens
Templates ==
  { <<>>,
    <<BaseURL>>,
    <<BaseURL, "${ID}">>,
    <<BaseURL, "${VERSION_ID}">>,
    <<BaseURL, "${COREOS_BOARD}">>,
    <<BaseURL, "${FLATCAR_BOARD}">>,
    <<BaseURL, "${COREOS_USR}">>,
    <<BaseURL, "${FLATCAR_USR}">>,
    <<BaseURL, "${ID}", "/", "${COREOS_BOARD}", "/", "${VERSION_ID}">>,
    <<BaseURL, "${ID}", "/", "${FLATCAR_BOARD}", "/", "${VERSION_ID}">>,
    <<BaseURL, "${TORCX}">>,
    <<"${ID}">> }

Remotes == {NilRemote} \cup { [isNil |-> FALSE, TemplateURL |-> t] : t \in Templates }

\* the NAME of a ${NAME} token, "" for a literal piece
VarName(tok) ==
  CASE tok = "${ID}" -> "ID"
    [] tok = "${VERSION_ID}" -> "VERSION_ID"
    [] tok = "${COREOS_BOARD}" -> "COREOS_BOARD"
    [] tok = "${FLATCAR_BOARD}" -> "FLATCAR_BOARD"
    [] tok = "${COREOS_USR}" -> "COREOS_USR"
    [] tok = "${FLATCAR_USR}" -> "FLATCAR_USR"
    [] tok = "${TORCX}" -> "TORCX"
    [] OTHER -> ""

\* mutant of Alias: the board names are not aliases of each other
Alias_BoardsApart(name) ==
  CASE name = "COREOS_USR" -> "FLATCAR_USR"
    [] OTHER -> name

\* the alias table: a legacy name and its renamed successor are one fact
Alias(name) ==
  CASE name = "COREOS_BOARD" -> "FLATCAR_BOARD"
    [] name = "COREOS_USR" -> "FLATCAR_USR"
    [] OTHER -> name

\* optional surrounding quotes of a value are stripped
Unquote(v) ==
  IF Len(v) >= 2 /\ v[1] = "\"" /\ v[Len(v)] = "\"" THEN SubSeq(v, 2, Len(v) - 1) ELSE v

\* the release-info reader's named lookup, from line i on: blank lines and
\* lines without "=" are skipped, the first line whose key is name or an
\* alias of it ends the scan
RECURSIVE LookupFrom(_, _, _)
LookupFrom(lines, i, name) ==
  IF i > Len(lines) THEN [found |-> FALSE, value |-> <<>>]
  ELSE LET parts == SplitN2(lines[i]) IN
       IF Len(parts) = 2 /\ Len(parts[1]) = 1 /\ Alias(parts[1][1]) = Alias(name)
         THEN [found |-> TRUE, value |-> Unquote(parts[2])]
         ELSE LookupFrom(lines, i + 1, name)

\* what ${name} resolves to: the literal mountpoint for the two synthetic
\* variables, the fact of the release-info file under mountpoint for a name
\* the file defines, the token itself for any other name
Resolve(tok, mountpoint, rd) ==
  LET name == VarName(tok)
      fact == LookupFrom(rd.lines, 1, name) IN
  IF name = "" THEN [out |-> <<tok>>, err |-> Nil]
  ELSE IF Alias(name) = "FLATCAR_USR" THEN [out |-> mountpoint, err |-> Nil]
  ELSE IF VendorOsReleasePath(mountpoint) \notin ReleaseFilePaths
    THEN [out |-> <<>>, err |-> Wrap(Err("open"), "failed to open")]
  ELSE IF fact.found THEN [out |-> fact.value, err |-> Nil]
  ELSE IF rd.err THEN [out |-> <<>>, err |-> Wrap(Err("scan"), "failed to parse os-release file")]
  ELSE [out |-> <<tok>>, err |-> Nil]

\* the substitution of the tokens of template from piece i on
RECURSIVE Substitute(_, _, _, _)
Substitute(template, i, mountpoint, rd) ==
  IF i > Len(template) THEN [out |-> <<>>, err |-> Nil]
  ELSE LET head == Resolve(template[i], mountpoint, rd)
           rest == Substitute(template, i + 1, mountpoint, rd) IN
       IF head.err # Nil THEN head
       ELSE IF rest.err # Nil THEN rest
       ELSE [out |-> head.out \o rest.out, err |-> Nil]

\* a syntactically valid absolute URL: it begins with scheme and host
ValidURL(u) == Len(u) > 0 /\ u[1] = BaseURL

\* mutant of evaluateURL: the template is tested before the mountpoint
evaluateURL_TemplateFirst(remote, mountpoint, rd) ==
  IF remote.isNil THEN [url |-> <<>>, err |-> errNilRemote]
  ELSE IF remote.TemplateURL = <<>> THEN [url |-> <<>>, err |-> errEmptyTemplateURL]
  ELSE IF mountpoint = <<>> THEN [url |-> <<>>, err |-> errEmptyUsrMountpoint]
  ELSE LET r == Substitute(remote.TemplateURL, 1, mountpoint, rd) IN
       IF r.err # Nil THEN [url |-> <<>>, err |-> r.err]
       ELSE IF ~ValidURL(r.out) THEN [url |-> <<>>, err |-> Err("invalid URL")]
       ELSE [url |-> r.out, err |-> Nil]

\* Remote.evaluateURL(usrMountpoint): the three preconditions in order, the
\* substitution, the parse of the result
evaluateURL(remote, mountpoint, rd) ==
  IF remote.isNil THEN [url |-> <<>>, err |-> errNilRemote]
  ELSE IF mountpoint = <<>> THEN [url |-> <<>>, err |-> errEmptyUsrMountpoint]
  ELSE IF remote.TemplateURL = <<>> THEN [url |-> <<>>, err |-> errEmptyTemplateURL]
  ELSE LET r == Substitute(remote.TemplateURL, 1, mountpoint, rd) IN
       IF r.err # Nil THEN [url |-> <<>>, err |-> r.err]
       ELSE IF ~ValidURL(r.out) THEN [url |-> <<>>, err |-> Err("invalid URL")]
       ELSE [url |-> r.out, err |-> Nil]

\* a caller evaluates the URL of a remote
CallEvaluateURL ==
  /\ ~verResult.called /\ ~urlResult.called
  /\ \E r \in Remotes :
       \E m \in Mountpoints :
         urlResult' = [called |-> TRUE, remote |-> r, mountpoint |-> m,
                       url |-> evaluateURL(r, m, osRelease).url,
                       err |-> evaluateURL(r, m, osRelease).err]
  /\ UNCHANGED <<pc, ret, faulted, statErrs, ctlVars, fsVars, spVars, aiVars, apVars, ssVars,
                 osRelease, verResult>>

\* ---------------------------------------------------------------- specification

\* A boot in which ApplyProfile is called, once (it runs at most once per
\* boot), with a profile of up to MaxImages images.
Next ==
  \/ Call(1, {"ApplyProfile"}, {Cfg("upper-a"), NilCfg})
  \/ Return
  \/ setupPaths(0)
  \/ ApplyProfile(MergedLists(MaxImages))
  \/ applyImages

Spec == Init /\ [][Next]_vars

\* The same boot with a profile of at most MaxShortList images, in which os.Stat can
\* fail with an error other than "not exist".
NextFaults ==
  \/ Call(1, {"ApplyProfile"}, {Cfg("upper-a"), NilCfg})
  \/ Return
  \/ setupPaths(MaxStatErrors)
  \/ ApplyProfile(MergedLists(MaxShortList))
  \/ applyImages

SpecFaults == Init /\ [][NextFaults]_vars

\* A boot in which ApplyProfile is called with a profile of up to MaxOddList
\* images whose names are any strings.
NextNames ==
  \/ Call(1, {"ApplyProfile"}, {Cfg("upper-a")})
  \/ Return
  \/ setupPaths(0)
  \/ ApplyProfile(OddLists)
  \/ applyImages

SpecNames == Init /\ [][NextNames]_vars

\* A boot in which setupPaths and SealSystemState are called several times,
\* in any order.
NextSeal ==
  \/ Call(MaxCalls, {"setupPaths", "SealSystemState"}, Cfgs \cup {NilCfg})
  \/ Return
  \/ setupPaths(MaxStatErrors)
  \/ SealSystemState(MaxStatErrors)

SpecSeal == Init /\ [][NextSeal]_vars

\* A system with any release-info file of up to MaxLines lines, on which the
\* version is asked for.
InitRelease ==
  /\ Booted
  /\ osRelease \in ReleaseStreams(MaxLines)

NextRelease ==
  \/ CallParseOsVersionID
  \/ CallCurrentOsVersionID

SpecRelease == InitRelease /\ [][NextRelease]_vars

\* A system with any release-info file of up to MaxFacts lines, on which the
\* URL of a remote is evaluated.
InitRemote ==
  /\ Booted
  /\ osRelease \in ReleaseStreams(MaxFacts)

NextRemote == CallEvaluateURL

SpecRemote == InitRemote /\ [][NextRemote]_vars

\* ---------------------------------------------------------------- properties

Range(seq) == { seq[i] : i \in 1..Len(seq) }

\* the loop of applyImages has been entered (NewStoreCache succeeded)
LoopEntered == progress # <<>>

\* the images a step of which returned an error
Failing == { i \in 1..Len(progress) : progress[i].failedAt # "none" }

\* image i went through every step: all its non-empty categories are propagated
FullyApplied(i) ==
  /\ progress[i].visited
  /\ progress[i].root \in TopDirs
  /\ imageRoots[progress[i].root] = "root"
  /\ \A c \in progress[i].assets : images[i].Name \in Range(propagated[c])

\* C1: applyImages attempts every image of the list, in list order, whatever
\* fails; an image no step of which failed has all its non-empty asset
\* categories propagated; the error it returns counts exactly the failing
\* images, each once, and is nil exactly when none failed.
C1_ApplyImagesContinues ==
  /\ (LoopEntered /\ pc \in {"AI_archive", "AI_end"})
       => \A i \in 1..Len(images) : progress[i].visited <=> i < imIdx
  /\ (LoopEntered /\ pc = "AP_afterApply")
       => /\ \A i \in 1..Len(images) : progress[i].visited
          /\ \A i \in 1..Len(images) : i \notin Failing => FullyApplied(i)
          /\ Len(failedImages) = Cardinality(Failing)
          /\ \A i \in Failing : images[i] \in Range(failedImages)
          /\ aiErr = IF Failing = {} THEN Nil
                     ELSE [ctx |-> <<>>, msg |-> "failed to install %d images",
                           n |-> Cardinality(Failing)]

\* three images, the one in the middle fails to unpack, the other two are
\* applied with all six categories, and the count is 1
C1_Witness ==
  /\ pc = "AP_afterApply"
  /\ Len(images) = 3
  /\ LoopEntered
  /\ progress[2].failedAt = "unpack"
  /\ Failing = {2}
  /\ progress[1].assets = CategorySet
  /\ progress[3].assets = CategorySet
  /\ FullyApplied(1) /\ FullyApplied(3)
  /\ aiErr.n = 1

\* the errors with which the writing of the run profile itself fails
\* (perform.go:72-88)
RunProfileErrors == {"create", "write", "chmod"}

\* ApplyProfile has returned from a run in which the per-image loop was run
\* to its end
AppliedAndReturned ==
  /\ pc = "done"
  /\ op = "ApplyProfile"
  /\ LoopEntered
  /\ \A i \in 1..Len(images) : progress[i].visited

\* C2, as claimed: once the per-image loop is through, only a failure of
\* the create, write or chmod of the run profile keeps ApplyProfile from
\* writing and chmod-ing it; a failed image does not.
C2_OnlyWriteErrorsPreventRunProfile ==
  (AppliedAndReturned /\ ret.msg \notin RunProfileErrors)
    => (chmodDone /\ rpFile.exists /\ rpFile.mode = "0444")

\* C2, amended: a failed image does not end the per-image loop, which is
\* run to its end; but when at least one image failed ApplyProfile returns
\* the failure count without creating the run profile, and when none failed
\* only a failure of the create, write or chmod keeps the run profile from
\* being created and made read-only.
C2_ImageFailurePreventsRunProfile ==
  /\ (LoopEntered /\ pc \in {"AP_afterApply", "AP_create", "AP_encode", "AP_chmod", "AP_flush", "AP_close"})
       => \A i \in 1..Len(images) : progress[i].visited
  /\ (AppliedAndReturned /\ Failing # {})
       => /\ ret = ErrFailedImages(failedImages)
          /\ rpFile = pre.rpFile
          /\ ~chmodDone
  /\ (AppliedAndReturned /\ Failing = {} /\ ret.msg \notin RunProfileErrors)
       => /\ ret = Nil
          /\ chmodDone /\ rpFile.exists /\ rpFile.mode = "0444"

\* the second of three images failed, the loop went on to the third, and
\* ApplyProfile returned the count without a run profile
C2_Witness ==
  /\ AppliedAndReturned
  /\ Len(images) = 3
  /\ Failing = {2}
  /\ FullyApplied(3)
  /\ ret.n = 1
  /\ ~rpFile.exists

\* C3: ApplyProfile(nil) returns the configuration error and changes nothing:
\* no directory, no mount, no image root, no propagated asset, no run profile,
\* at any point of the call.
C3_NilConfigNoMutation ==
  (op = "ApplyProfile" /\ applyCfg.isNil)
    => /\ Snapshot = pre
       /\ loopHeld = 0
       /\ progress = <<>>
       /\ pc \in {"AP_start", "done"}
       /\ pc = "done" => ret = ErrMissingCfg

C3_Witness ==
  /\ pc = "done"
  /\ op = "ApplyProfile"
  /\ applyCfg.isNil
  /\ ret = ErrMissingCfg

\* C5, as claimed: when the run profile is made read-only its content is
\* complete, and nothing ApplyProfile does afterwards changes it.
C5_WrittenBeforeReadOnly ==
  (op = "ApplyProfile" /\ chmodDone) => rpFile.content = EncodeRunProfile(images)

\* a step of ApplyProfile on which no image is processed any more
AfterLoop == pc \in {"AP_create", "AP_encode", "AP_chmod", "AP_flush", "AP_close", "done"}

\* C10: when setupPaths, mergeProfiles or NewStoreCache fails ApplyProfile
\* returns that error at once: no image is resolved, extracted or
\* propagated, none is counted as failed, no run profile is created.
C10_FatalErrorsPropagate ==
  /\ (op = "ApplyProfile" /\ pc = "done" /\ spErr # Nil)
       => ret = Wrap(spErr, "profile setup") /\ images = <<>>
  /\ (op = "ApplyProfile" /\ pc = "done" /\ aiErr.msg = "store cache")
       => ret = aiErr
  /\ (op = "ApplyProfile" /\ pc = "done"
        /\ (spErr # Nil \/ ret.msg = "merge profiles" \/ aiErr.msg = "store cache"))
       => /\ progress = <<>>
          /\ failedImages = <<>>
          /\ imageRoots = pre.imageRoots
          /\ propagated = pre.propagated
          /\ loopHeld = 0
          /\ rpFile = pre.rpFile
          /\ ~rpp /\ ~chmodDone
  /\ (op = "ApplyProfile" /\ (spErr # Nil \/ ret.msg = "merge profiles" \/ aiErr.msg = "store cache"))
       => pc \in {"AP_afterSetup", "AP_afterApply", "done"}

\* NewStoreCache failed for a profile of three images
C10_Witness ==
  /\ op = "ApplyProfile"
  /\ pc = "done"
  /\ Len(images) = 3
  /\ ret = Err("store cache")
  /\ ~rpFile.exists

\* the unpack directory is a mount point whose topmost mount is read-only
ReadOnlyMounted(mounts) == mounts # <<>> /\ mounts[Len(mounts)].ro

\* C4, as claimed: once the unpack directory is read-only (which only a
\* successful SealSystemState makes it) no later step of any operation makes
\* it writable again.
C4_SealedStaysReadOnly ==
  [][ReadOnlyMounted(unpackMounts) => ReadOnlyMounted(unpackMounts')]_vars

\* the seal record of cfg is on disk, whole
SealRecordWritten(f, cfg) == f.exists /\ f.content = SealContent(cfg)

\* C6, as claimed: when SealSystemState returns, either the seal record is
\* written and the unpack directory is read-only, or the call has changed
\* neither.
C6_SealAtomic ==
  (pc = "done" /\ op = "SealSystemState" /\ ~applyCfg.isNil)
    => \/ SealRecordWritten(sealFile, applyCfg) /\ ReadOnlyMounted(unpackMounts)
       \/ sealFile = pre.sealFile /\ unpackMounts = pre.unpackMounts

\* the system of snapshot snap is sealed with cfg
SealedWith(snap, cfg) ==
  SealRecordWritten(snap.sealFile, cfg) /\ ReadOnlyMounted(snap.unpackMounts)

\* SealSystemState has returned from a call made on a system sealed with the
\* same configuration, in which no system call failed for an outside reason
ResealReturned ==
  /\ pc = "done"
  /\ op = "SealSystemState"
  /\ ~applyCfg.isNil
  /\ SealedWith(pre, applyCfg)
  /\ ~faulted

\* C7: SealSystemState on a system already sealed with the same
\* configuration returns nil and leaves the seal record and the read-only
\* unpack directory (and the rest of the filesystem) as they were. The
\* system calls of the second call are taken not to fail for reasons of
\* their own (an I/O error, a busy mount).
C7_SealIdempotent ==
  ResealReturned => (ret = Nil /\ Snapshot = pre)

C7_Witness ==
  /\ ResealReturned
  /\ ret = Nil
  /\ Len(sealFile.content) = Len(SealContent(applyCfg))

\* every path of setupPaths exists in snap and the unpack directory is mounted
Populated(snap, cfg) ==
  /\ \A k \in 1..Len(SetupPathList(cfg)) : SetupPathList(cfg)[k] \in snap.dirs
  /\ snap.unpackMounts # <<>>

\* setupPaths has returned from a call made on a populated layout
SecondSetupReturned ==
  /\ pc = "done"
  /\ op = "setupPaths"
  /\ ~applyCfg.isNil
  /\ Populated(pre, applyCfg)

ArtefactExists(cfg) ==
  \/ \E k \in 2..Len(SetupPathList(cfg)) : SetupPathList(cfg)[k] \in dirs
  \/ unpackMounts # <<>>
  \/ \E d \in TopDirs : imageRoots[d] # "absent"
  \/ \E c \in CategorySet : propagated[c] # <<>>
  \/ rpFile.exists

\* C9, as claimed: at every point of ApplyProfile, when anything else the run
\* makes exists, the run directory exists.
C9_RunDirFirst ==
  (op = "ApplyProfile" /\ ~applyCfg.isNil /\ ArtefactExists(applyCfg))
    => applyCfg.RunDir \in dirs

\* ---------------------------------------------------------------- properties of the release-info reader

\* line is VERSION_ID=value
IsVersionLine(line) == Len(line) >= 2 /\ line[1] = "VERSION_ID" /\ line[2] = "="

\* the value of such a line: the text after the first "="
ValueOf(line) == SubSeq(line, 3, Len(line))

VersionLines(lines) == { i \in 1..Len(lines) : IsVersionLine(lines[i]) }

\* the first VERSION_ID line of lines, when there is one
FirstVersionLine(lines) ==
  lines[CHOOSE i \in VersionLines(lines) : \A j \in VersionLines(lines) : i <= j]

\* parseOsVersionID has returned (CurrentOsVersionID having opened the file)
Parsed == verResult.called /\ verResult.err.msg # "open"

\* C11: a stream without a VERSION_ID line, the empty stream among them,
\* yields ErrUnknownOSVersionID; blank lines and lines without "=" raise no
\* error and do not change the result; when the stream has VERSION_ID lines
\* the string returned is the value of the first of them, whatever follows it
\* in the stream (further VERSION_ID lines, a read error), with a nil error
\* unless that value is empty.
C11_FirstVersionIDWins ==
  Parsed =>
    /\ (VersionLines(osRelease.lines) = {} /\ ~osRelease.err)
         => (verResult.ver = <<>> /\ verResult.err = ErrUnknownOSVersionID)
    /\ ~osRelease.err => verResult.err \in {Nil, ErrUnknownOSVersionID}
    /\ VersionLines(osRelease.lines) # {}
         => /\ verResult.ver = ValueOf(FirstVersionLine(osRelease.lines))
            /\ verResult.err = IF verResult.ver = <<>> THEN ErrUnknownOSVersionID ELSE Nil

\* a line without "=", then two VERSION_ID lines: the first value is returned
C11_Witness ==
  /\ Parsed
  /\ osRelease.lines = << <<"VERSION_ID">>,
                          <<"VERSION_ID", "=", "1680.2.0">>,
                          <<"VERSION_ID", "=", "2705.0.0">> >>
  /\ verResult.ver = <<"1680.2.0">>
  /\ verResult.err = Nil

\* value is a text in double quotes
Quoted(value) == Len(value) >= 2 /\ value[1] = "\"" /\ value[Len(value)] = "\""

\* C12, as claimed: when the first VERSION_ID line has its value in double
\* quotes, the version returned is the value without the quotes.
C12_QuotesStripped ==
  (Parsed /\ VersionLines(osRelease.lines) # {}
     /\ Quoted(ValueOf(FirstVersionLine(osRelease.lines))))
    => LET v == ValueOf(FirstVersionLine(osRelease.lines)) IN
       verResult.ver = SubSeq(v, 2, Len(v) - 1)

\* ---------------------------------------------------------------- properties of evaluateURL

\* template holds no ${NAME} token
NoPlaceholders(template) == \A i \in 1..Len(template) : VarName(template[i]) = ""

\* C13: evaluateURL tests its preconditions in the order remote, mountpoint,
\* template, and answers the first one violated with its own sentinel error,
\* whatever the later arguments are; with the three satisfied, a template
\* without placeholders is returned unchanged.
C13_PreconditionOrder ==
  /\ errNilRemote # errEmptyUsrMountpoint
  /\ errNilRemote # errEmptyTemplateURL
  /\ errEmptyUsrMountpoint # errEmptyTemplateURL
  /\ urlResult.called =>
       IF urlResult.remote.isNil
         THEN urlResult.err = errNilRemote /\ urlResult.url = <<>>
       ELSE IF urlResult.mountpoint = <<>>
         THEN urlResult.err = errEmptyUsrMountpoint /\ urlResult.url = <<>>
       ELSE IF urlResult.remote.TemplateURL = <<>>
         THEN urlResult.err = errEmptyTemplateURL /\ urlResult.url = <<>>
       ELSE NoPlaceholders(urlResult.remote.TemplateURL)
              => (urlResult.err = Nil /\ urlResult.url = urlResult.remote.TemplateURL)

\* a remote with an empty template, called with an empty mountpoint
C13_Witness ==
  /\ urlResult.called
  /\ ~urlResult.remote.isNil
  /\ urlResult.remote.TemplateURL = <<>>
  /\ urlResult.mountpoint = <<>>
  /\ urlResult.err = errEmptyUsrMountpoint

\* the template with ${COREOS_BOARD} and ${FLATCAR_BOARD} exchanged
SwapBoard(template) ==
  [i \in 1..Len(template) |->
     CASE template[i] = "${COREOS_BOARD}" -> "${FLATCAR_BOARD}"
       [] template[i] = "${FLATCAR_BOARD}" -> "${COREOS_BOARD}"
       [] OTHER -> template[i]]

\* the release-info file defines the board, under either name
BoardDefined(rd) ==
  \E i \in 1..Len(rd.lines) :
    /\ Len(rd.lines[i]) >= 2
    /\ rd.lines[i][1] \in {"COREOS_BOARD", "FLATCAR_BOARD"}
    /\ rd.lines[i][2] = "="

\* the call evaluated the template BaseURL${name}
Evaluated(name) ==
  /\ urlResult.called
  /\ ~urlResult.remote.isNil
  /\ urlResult.mountpoint # <<>>
  /\ urlResult.remote.TemplateURL = <<BaseURL, name>>

\* C14: when the release-info file defines the board under either name, a
\* template evaluates to what the same template with the other board name
\* evaluates to; ${COREOS_USR} and ${FLATCAR_USR} both evaluate to the
\* mountpoint passed, whatever the release-info file holds.
C14_AliasesEquivalent ==
  /\ (urlResult.called /\ ~urlResult.remote.isNil /\ BoardDefined(osRelease))
       => LET other == evaluateURL([isNil |-> FALSE, TemplateURL |-> SwapBoard(urlResult.remote.TemplateURL)],
                                   urlResult.mountpoint, osRelease) IN
          urlResult.url = other.url /\ urlResult.err = other.err
  /\ (Evaluated("${COREOS_USR}") \/ Evaluated("${FLATCAR_USR}"))
       => (urlResult.err = Nil /\ urlResult.url = <<BaseURL>> \o urlResult.mountpoint)

\* the file defines FLATCAR_BOARD only and the template asks for COREOS_BOARD
C14_Witness ==
  /\ Evaluated("${COREOS_BOARD}")
  /\ osRelease.lines = << <<"ID", "=", "flatcar">>, <<"FLATCAR_BOARD", "=", "amd64-usr">> >>
  /\ urlResult.url = <<BaseURL, "amd64-usr">>
  /\ urlResult.err = Nil

\* ---------------------------------------------------------------- properties of the per-image steps

\* the steps of an image with the non-empty categories a, in the code's order
StepsOf(a) ==
  LET NonEmpty(c) == c \in a IN
  <<"resolve", "unpack", "assets">> \o SelectSeq(Categories, NonEmpty)

IsPrefix(s, t) == Len(s) <= Len(t) /\ s = SubSeq(t, 1, Len(s))

\* how often image i is in failedImages
TimesFailed(i) == Cardinality({ k \in 1..Len(failedImages) : failedImages[k] = images[i] })

\* applyImages is through with image i
Through(i) == i < imIdx \/ pc \notin {"AI_archive", "AI_unpack", "UT_mkdir", "UT_extract", "MS_mkdir",
                                       "MS_attach", "MS_mount", "MS_close", "AI_assets", "AI_propagate"}

\* the dispatch on the archive format: tgz enters unpackTgz, squashfs enters
\* mountSquashfs, any other format fails the image
FormatDispatch ==
  pc = "AI_unpack" =>
    CASE archive = "tgz" -> pc' = "UT_mkdir" /\ failedImages' = failedImages
      [] archive = "squashfs" -> pc' = "MS_mkdir" /\ failedImages' = failedImages
      [] OTHER -> /\ failedImages' = Append(failedImages, images[imIdx])
                  /\ progress'[imIdx].failedAt = "unpack"
                  /\ imIdx' = imIdx + 1

\* the steps run for each image are a prefix of resolve, unpack, assets
\* and its non-empty categories in the order Binaries .. UdevRules, each once;
\* a failed step is the last step of its image, which is then in
\* failedImages exactly once; an image without a failed step is not in
\* failedImages and, once applyImages is through with it, has run them all
StepOrder ==
  LoopEntered =>
    \A i \in 1..Len(images) :
      /\ IsPrefix(progress[i].steps, StepsOf(progress[i].assets))
      /\ progress[i].failedAt # "none"
           => /\ progress[i].steps # <<>>
              /\ progress[i].steps[Len(progress[i].steps)] = progress[i].failedAt
              /\ Through(i)
              /\ TimesFailed(i) = 1
      /\ progress[i].failedAt = "none"
           => /\ TimesFailed(i) = 0
              /\ (Through(i) => progress[i].steps = StepsOf(progress[i].assets))

\* C15: each image goes through resolve, extract or mount (by format, any
\* other format failing the image), retrieve assets and the propagation of
\* its non-empty categories in the fixed order; each step runs at most once,
\* the first failing step is the last step of the image, and the image is
\* appended to the failed list exactly once.
C15_StepsInOrderOnce == []StepOrder /\ [][FormatDispatch]_vars

\* one image ran all nine steps, the next failed at the propagation of Units
\* after Binaries and Network, the third failed at its extraction
C15_Witness ==
  /\ pc = "AP_afterApply"
  /\ Len(images) = 3
  /\ LoopEntered
  /\ Len(progress[1].steps) = 9 /\ progress[1].failedAt = "none"
  /\ progress[2].steps = <<"resolve", "unpack", "assets", "Binaries", "Network", "Units">>
  /\ progress[2].failedAt = "Units"
  /\ progress[3].steps = <<"resolve", "unpack">>
  /\ Len(failedImages) = 2

\* ---------------------------------------------------------------- properties of the processing order

\* image i has run its last step
Finished(i) == progress[i].failedAt # "none" \/ progress[i].steps = StepsOf(progress[i].assets)

\* the indices of the images that propagated category c
Propagators(c) ==
  { i \in 1..Len(images) : \E k \in 1..Len(progress[i].steps) :
                              progress[i].steps[k] = c /\ progress[i].failedAt # c }

\* the names of the images of the index set is, in the order of the merged list
RECURSIVE InListOrder(_, _)
InListOrder(is, i) ==
  IF i > Len(images) THEN <<>>
  ELSE (IF i \in is THEN <<images[i].Name>> ELSE <<>>) \o InListOrder(is, i + 1)

\* C16: no step of an image is run before every image earlier in the merged
\* list has run its last step; the images that propagate a category do so in
\* the order of the merged list, whichever other images fail, so that a
\* destination two of them write finally holds the asset of the one later in
\* the list.
C16_SequentialLastWriteWins ==
  LoopEntered =>
    /\ \A i \in 1..Len(images) :
         progress[i].steps # <<>> => \A j \in 1..(i - 1) : Finished(j)
    /\ \A c \in CategorySet : propagated[c] = InListOrder(Propagators(c), 1)
    /\ pc \in {"AP_afterApply", "done"}
         => \A c \in CategorySet :
              \A i, j \in Propagators(c) :
                i < j => Holder(c) # images[i].Name

\* the first and the third image propagated Binaries, the second failed
\* before it could: the destination holds the third image's binary
C16_Witness ==
  /\ pc = "AP_afterApply"
  /\ Len(images) = 3
  /\ LoopEntered
  /\ Propagators("Binaries") = {1, 3}
  /\ progress[2].failedAt = "assets"
  /\ Holder("Binaries") = images[3].Name

\* ---------------------------------------------------------------- properties of the image roots

\* the images whose extractor has returned an image root
Rooted == { i \in 1..Len(progress) : progress[i].root # <<>> }

\* C17, as claimed: the image root an extractor returns is a directory of
\* its own below the unpack directory, and two images with different names
\* have different image roots, whatever the names are.
C17_RootsInsideAndApart ==
  (op = "ApplyProfile" /\ LoopEntered) =>
    /\ \A i \in Rooted :
         /\ Inside(progress[i].root, RunUnpackDir(applyCfg))
         /\ progress[i].root # RunUnpackDir(applyCfg)
    /\ \A i, j \in Rooted :
         images[i].Name # images[j].Name => progress[i].root # progress[j].root

\* ---------------------------------------------------------------- properties of the loop device

\* C18: the process holds the loop-device handle of mountSquashfs from the
\* attach up to the deferred Close, which runs after the mount attempt,
\* failed or not; outside of these two steps it holds none.
C18_LoopHandleReleased ==
  loopHeld = IF pc \in {"MS_mount", "MS_close"} THEN 1 ELSE 0

\* mountSquashfs has returned the root of a mounted image, the handle is closed
C18_Witness ==
  /\ pc = "AI_assets"
  /\ archive = "squashfs"
  /\ imageRoot # <<>>
  /\ imageRoots[imageRoot] = "root"
  /\ loopHeld = 0

\* ---------------------------------------------------------------- properties of the run profile

\* the run of ApplyProfile in progress has created the run-profile file
RunProfileCreated == op = "ApplyProfile" /\ (rpp \/ rpFile # pre.rpFile)

\* C19: ApplyProfile creates the run-profile file only when no image failed:
\* then every image of the merged list, which are the only ones the file
\* lists, was resolved, extracted and had all its non-empty categories
\* propagated; or the list is empty, applyImages was not called, and the
\* profile lists no image.
C19_RunProfileOnlyWithoutFailures ==
  RunProfileCreated =>
    /\ IsPrefix(rpFile.content, EncodeRunProfile(images))
    /\ IF images = <<>>
         THEN ~LoopEntered /\ failedImages = <<>>
         ELSE /\ LoopEntered
              /\ Failing = {}
              /\ failedImages = <<>>
              /\ \A i \in 1..Len(images) :
                   FullyApplied(i) /\ progress[i].steps = StepsOf(progress[i].assets)

\* the run profile of three images, all applied, is written
C19_Witness ==
  /\ pc = "done"
  /\ op = "ApplyProfile"
  /\ Len(images) = 3
  /\ rpFile.exists
  /\ rpFile.content = EncodeRunProfile(images)
  /\ progress[3].assets = CategorySet
  /\ FullyApplied(3)

\* ---------------------------------------------------------------- properties of failed images

\* a step of applyImages
InApplyImages ==
  pc \in {"AI_archive", "AI_unpack", "UT_mkdir", "UT_extract", "MS_mkdir", "MS_attach",
          "MS_mount", "MS_close", "AI_assets", "AI_propagate", "AI_end"}

\* no step of applyImages takes back an effect: a top directory stays, an
\* image root stays, a propagated asset stays; the step in which an image
\* fails changes nothing at all on the filesystem
NoRollback ==
  InApplyImages =>
    /\ \A d \in TopDirs :
         /\ imageRoots[d] = "root" => imageRoots'[d] = "root"
         /\ imageRoots[d] = "dir" => imageRoots'[d] # "absent"
    /\ \A c \in CategorySet : IsPrefix(propagated[c], propagated'[c])
    /\ failedImages' # failedImages
         => (imageRoots' = imageRoots /\ propagated' = propagated /\ dirs' = dirs
             /\ unpackMounts' = unpackMounts)

\* after the loop, what a failed image did before the step that failed is
\* there: its image root when it was extracted, each category it propagated
EffectsLeft ==
  (LoopEntered /\ pc \in {"AP_afterApply", "done"}) =>
    \A i \in Failing :
      /\ progress[i].root # <<>> => imageRoots[progress[i].root] = "root"
      /\ \A k \in 1..(Len(progress[i].steps) - 1) :
           progress[i].steps[k] \in CategorySet
             => images[i].Name \in Range(propagated[progress[i].steps[k]])

\* C20: a failed image is not rolled back: its top directory, its image
\* root and the categories it propagated before the failing step are still
\* there at the end of the run, and the failure changes nothing that other
\* images made.
C20_NoRollback == []EffectsLeft /\ [][NoRollback]_vars

\* the second image failed at the propagation of Units: its root, its
\* binaries and its network units are there, and so are those of the first
C20_Witness ==
  /\ pc = "AP_afterApply"
  /\ LoopEntered
  /\ Len(images) >= 2
  /\ progress[2].failedAt = "Units"
  /\ imageRoots[progress[2].root] = "root"
  /\ images[2].Name \in Range(propagated["Binaries"])
  /\ images[2].Name \in Range(propagated["Network"])
  /\ progress[1].failedAt = "none"
  /\ progress[1].assets = CategorySet
  /\ FullyApplied(1)

====
